---- MODULE Spec2Model ----
(***************************************************************************)
(* Model of the QUA macro helpers (macros.py of the two-qubit              *)
(* cross-entropy benchmarking use case) and of the IQ_imbalance helper and *)
(* mixer table of two_qubit_rb_config.py.                                  *)
(*                                                                         *)
(* Conventions                                                             *)
(*  - Python numbers handed to the macros as keyword arguments are kept in *)
(*    half units (the number 3 is 6, the number 1.5 is 3), so that         *)
(*    float(x).is_integer() is a real test.                                *)
(*  - QUA `fixed` values (threshold, Ig) are kept in units of 2**-28, the  *)
(*    increment the code itself uses.                                      *)
(*  - A Python dict / list indexed from 0 is a function on 0..n-1.         *)
(***************************************************************************)
EXTENDS Integers, Sequences, FiniteSets, TLC

VARIABLES pc, op, args, ar, Ig, counter, trace, amp_matrix, ret, lib, config,
          cavity_config, qua, streams

vars == <<pc, op, args, ar, Ig, counter, trace, amp_matrix, ret, lib, config,
          cavity_config, qua, streams>>

(***************************************************************************)
(* Bounds of the model                                                     *)
(***************************************************************************)
MaxTriesBound == 3      \* largest max_tries handed to the reset macros
MaxCooldown == 6        \* largest cooldown_time (clock cycles) handed to reset_qubit
MaxGates == 3           \* largest number of entries of a gate_dict
MaxN == 9               \* largest integer handed to binary
MaxLength == 4          \* largest length handed to binary
MaxPoints == 3          \* largest number of (cycle depth, fidelity) pairs fitted
MaxAvg == 2              \* largest number of averages of the spectroscopy sweep
MaxFreqs == 3            \* largest number of frequencies of the spectroscopy sweep
MaxFixed == 1           \* thresholds range over -MaxFixed..MaxFixed (units of 2**-28)

\* longest run-time trace of active_reset: align, then measure + play per try
MaxTrace == 2 * MaxTriesBound + 3

(***************************************************************************)
(* Input domains                                                           *)
(***************************************************************************)
Qubits == {"qe0", "qe1"}
Resonators == {"rr0", "rr1"}
ThresholdVals == (0 - MaxFixed)..MaxFixed
IgVals == (0 - MaxFixed - 1)..(MaxFixed + 1)       \* outcomes of a measurement
IgHandles == {"None", "Ig_user"}                   \* the Ig argument: None or a QUA variable

\* Python numbers in half units
PyInt(i) == 2 * i
IsInteger(x) == x % 2 = 0
NumVals == 0..(2 * MaxTriesBound)                  \* 0, 0.5, 1, ..., MaxTriesBound

\* keyword arguments: key absent, key given as None, key given with a value
Absent == [k |-> "absent", v |-> 0]
NoneVal == [k |-> "none", v |-> 0]
Val(x) == [k |-> "val", v |-> x]
KwGet(kw, default) == IF kw.k = "absent" THEN default ELSE kw

\* one statement of the QUA program, as executed on the hardware
Stmt(o, el, pulse, val) == [op |-> o, el |-> el, pulse |-> pulse, val |-> val]

NoArgs == [none |-> TRUE]
NoAr == [none |-> TRUE]
NoRet == <<>>
NoAmp == <<0, 0, 0, 0>>
NoQua == [none |-> TRUE]
NoStreams == [I |-> <<>>, Q |-> <<>>, t |-> <<>>]

(***************************************************************************)
(* active_reset, macros.py:144-181                                         *)
(***************************************************************************)
\* macros.py:157  the argument check of active_reset
ActiveResetRejects_Never(max_tries) == FALSE
ActiveResetRejects(max_tries) == (max_tries < PyInt(1)) \/ ~IsInteger(max_tries)

\* macros.py:160  Ig is initialised just above the threshold
InitialIg_AtThreshold(threshold) == threshold
InitialIg(threshold) == threshold + 1

\* macros.py:169  the condition of the while_ loop
WhileCond(ig, threshold, cnt, max_tries) ==
    (ig > threshold) /\ (PyInt(cnt) < max_tries)

\* macros.py:178  the condition of the conditional pi pulse
PlayCondition_Inverted(ig, threshold) == ig <= threshold
PlayCondition(ig, threshold) == ig > threshold

\* macros.py:180  the increment of the number of tries
CounterNext_Stuck(cnt) == cnt
CounterNext(cnt) == cnt + 1

\* macros.py:155-167  the Python part of active_reset: declarations, the
\* argument check, the two initial assignments and the align
active_reset_build(threshold, qubit, resonator, max_tries, IgArg) ==
    LET IgVar == IF IgArg = "None" THEN "Ig_declared" ELSE IgArg IN
    /\ ar' = [threshold |-> threshold, qubit |-> qubit, resonator |-> resonator,
              max_tries |-> max_tries, Ig |-> IgArg, IgVar |-> IgVar]
    /\ IF ActiveResetRejects(max_tries)
       THEN /\ pc' = "raised"
            /\ ret' = <<"Exception", "max_count must be an integer >= 1.">>
            /\ UNCHANGED <<Ig, counter, trace>>
       ELSE /\ Ig' = InitialIg(threshold)
            /\ counter' = 0
            /\ trace' = <<Stmt("align", qubit, resonator, <<>>)>>
            /\ pc' = "ar_while"
            /\ ret' = <<IgVar, "counter">>

\* a direct call of active_reset
active_reset ==
    /\ pc = "idle"
    /\ \E threshold \in ThresholdVals, qubit \in Qubits, resonator \in Resonators,
          max_tries \in NumVals, IgArg \in IgHandles :
          /\ op' = "active_reset"
          /\ args' = [threshold |-> threshold, qubit |-> qubit,
                      resonator |-> resonator, max_tries |-> max_tries, Ig |-> IgArg]
          /\ active_reset_build(threshold, qubit, resonator, max_tries, IgArg)
    /\ UNCHANGED <<amp_matrix, lib, config, cavity_config, qua, streams>>

\* macros.py:169  the loop test, evaluated by the sequencer
ar_while ==
    /\ pc = "ar_while"
    /\ IF WhileCond(Ig, ar.threshold, counter, ar.max_tries)
       THEN pc' = "ar_measure"
       ELSE pc' = "done"
    /\ UNCHANGED <<op, args, ar, Ig, counter, trace, amp_matrix, ret, lib, config, cavity_config, qua, streams>>

\* macros.py:171-176  measure the resonator, demodulating into Ig
ar_measure ==
    /\ pc = "ar_measure"
    /\ Len(trace) < MaxTrace
    /\ \E v \in IgVals :
          /\ Ig' = v
          /\ trace' = Append(trace, Stmt("measure", ar.resonator, "readout", <<v>>))
    /\ pc' = "ar_play"
    /\ UNCHANGED <<op, args, ar, counter, amp_matrix, ret, lib, config, cavity_config, qua, streams>>

\* macros.py:178  the conditional pi pulse
ar_play ==
    /\ pc = "ar_play"
    /\ trace' = IF PlayCondition(Ig, ar.threshold)
                THEN Append(trace, Stmt("play", ar.qubit, "x180", <<>>))
                ELSE trace
    /\ pc' = "ar_incr"
    /\ UNCHANGED <<op, args, ar, Ig, counter, amp_matrix, ret, lib, config, cavity_config, qua, streams>>

\* macros.py:180  assign(counter, counter + 1)
ar_incr ==
    /\ pc = "ar_incr"
    /\ counter' = CounterNext(counter)
    /\ pc' = "ar_while"
    /\ UNCHANGED <<op, args, ar, Ig, trace, amp_matrix, ret, lib, config, cavity_config, qua, streams>>

(***************************************************************************)
(* reset_qubit, macros.py:98-140                                           *)
(***************************************************************************)
Methods == {"cooldown", "active", "other"}
KwCooldowns == {Absent, NoneVal} \cup {Val(x) : x \in 0..(2 * MaxCooldown)}
KwMaxTries == {Absent, NoneVal} \cup {Val(x) : x \in NumVals}
KwThresholds == {Absent, NoneVal} \cup {Val(x) : x \in ThresholdVals}

\* macros.py:124  the check of cooldown_time
CooldownRejects(cooldown_time) ==
    (cooldown_time.k = "none") \/ (cooldown_time.v < PyInt(4))

\* macros.py:131  the check of threshold
ThresholdRejects(threshold) == threshold.k = "none"

\* macros.py:135  the check of max_tries
MaxTriesRejects_NoIntCheck(max_tries) ==
    (max_tries.k = "none") \/ (max_tries.v < PyInt(1))
MaxTriesRejects(max_tries) ==
    (max_tries.k = "none") \/ ~IsInteger(max_tries.v) \/ (max_tries.v < PyInt(1))

reset_qubit ==
    /\ pc = "idle"
    /\ \E method \in Methods, qubit \in Qubits, resonator \in Resonators,
          kw_cooldown \in KwCooldowns, kw_threshold \in KwThresholds,
          kw_max_tries \in KwMaxTries, kw_Ig \in IgHandles :
          \* kwargs irrelevant to the method are left out of the enumeration
          /\ method = "cooldown" =>
                kw_threshold = Absent /\ kw_max_tries = Absent /\ kw_Ig = "None"
          /\ method = "active" => kw_cooldown = Absent
          /\ method = "other" =>
                /\ kw_cooldown = Absent /\ kw_threshold = Absent
                /\ kw_max_tries = Absent /\ kw_Ig = "None"
          /\ op' = "reset_qubit"
          /\ args' = [method |-> method, qubit |-> qubit, resonator |-> resonator,
                      cooldown_time |-> kw_cooldown, threshold |-> kw_threshold,
                      max_tries |-> kw_max_tries, Ig |-> kw_Ig]
          /\ IF method = "cooldown"
             THEN LET cooldown_time == KwGet(kw_cooldown, NoneVal) IN
                  IF CooldownRejects(cooldown_time)
                  THEN /\ pc' = "raised"
                       /\ ret' = <<"Exception",
                                   "'cooldown_time' must be an integer > 4 clock cycles">>
                       /\ UNCHANGED <<ar, Ig, counter, trace>>
                  ELSE /\ trace' = <<Stmt("wait", qubit, "", <<cooldown_time.v>>)>>
                       /\ pc' = "done"
                       /\ ret' = <<>>
                       /\ UNCHANGED <<ar, Ig, counter>>
             ELSE IF method = "active"
             THEN LET threshold == KwGet(kw_threshold, NoneVal)
                      max_tries == KwGet(kw_max_tries, Val(PyInt(1))) IN
                  IF ThresholdRejects(threshold)
                  THEN /\ pc' = "raised"
                       /\ ret' = <<"Exception",
                                   "'threshold' must be specified for active reset.">>
                       /\ UNCHANGED <<ar, Ig, counter, trace>>
                  ELSE IF MaxTriesRejects(max_tries)
                  THEN /\ pc' = "raised"
                       /\ ret' = <<"Exception", "'max_tries' must be an integer > 0.">>
                       /\ UNCHANGED <<ar, Ig, counter, trace>>
                  ELSE active_reset_build(threshold.v, qubit, resonator,
                                          max_tries.v, kw_Ig)
             ELSE /\ pc' = "done"
                  /\ ret' = <<>>
                  /\ UNCHANGED <<ar, Ig, counter, trace>>
    /\ UNCHANGED <<amp_matrix, lib, config, cavity_config, qua, streams>>

(***************************************************************************)
(* Gate macros, macros.py:18-95                                            *)
(*                                                                         *)
(* amp_matrix is a Python list of four QUA variables; it is the sequence   *)
(* of their run-time values here, Python index j being position j + 1.     *)
(***************************************************************************)
AmpX == <<1, 0, 0, 1>>
AmpY == <<0, -1, 1, 0>>
AmpW == <<1, -1, 1, 1>>
AmpMatrices == {AmpX, AmpY, AmpW}

\* entries of a gate_dict: the gate object (its name and label) and its amp_matrix
GateEntries ==
    { [name |-> "sx", label |-> "sx", amp_matrix |-> AmpX],
      [name |-> "sy", label |-> "sy", amp_matrix |-> AmpY],
      [name |-> "t",  label |-> "t",  amp_matrix |-> AmpX],
      [name |-> "pxp", label |-> "sw", amp_matrix |-> AmpW],
      [name |-> "t",  label |-> "sw", amp_matrix |-> AmpW],
      [name |-> "sw", label |-> "w",  amp_matrix |-> AmpY] }

GateDicts == UNION { [0..(n - 1) -> GateEntries] : n \in 0..MaxGates }
GateVals == (0 - 1)..MaxGates                      \* run-time value of the QUA variable gate
BaselineOps == {"sx", "x90"}

\* switch_(gate): the body of the matching case runs, no body when none matches
SwitchSafe(gate, cases) ==
    IF gate \in DOMAIN cases THEN {cases[gate]} ELSE {<<>>}

\* switch_(gate, unsafe=True): as above when a case matches; with no matching
\* case the behaviour is undefined: the body of any one case, or none, may run
SwitchUnsafe(gate, cases) ==
    IF gate \in DOMAIN cases
    THEN {cases[gate]}
    ELSE {cases[i] : i \in DOMAIN cases} \cup {<<>>}

\* macros.py:28-29  the body of case_(i) of assign_amplitude_matrix;
\* val = <<j, i, value>>: amp_matrix[j] is assigned gate_dict[i]["amp_matrix"][j]
AssignBody_FirstGate(i, gate_dict) ==
    [j1 \in 1..4 |-> Stmt("assign", "amp_matrix", "",
                          <<j1 - 1, 0, gate_dict[0].amp_matrix[j1]>>)]
AssignBody(i, gate_dict) ==
    [j1 \in 1..4 |-> Stmt("assign", "amp_matrix", "",
                          <<j1 - 1, i, gate_dict[i].amp_matrix[j1]>>)]

\* macros.py:26-27  one case per gate index
AssignCases(gate_dict) ==
    [i \in 0..(Cardinality(DOMAIN gate_dict) - 1) |-> AssignBody(i, gate_dict)]

\* the effect of executed assign statements on amp_matrix
RECURSIVE RunAssigns(_, _)
RunAssigns(am, stmts) ==
    IF stmts = <<>> THEN am
    ELSE RunAssigns([am EXCEPT ![Head(stmts).val[1] + 1] = Head(stmts).val[3]],
                    Tail(stmts))

\* macros.py:18-29
assign_amplitude_matrix ==
    /\ pc = "idle"
    /\ \E gate \in GateVals, am \in AmpMatrices, gate_dict \in GateDicts :
          /\ op' = "assign_amplitude_matrix"
          /\ args' = [gate |-> gate, amp_matrix |-> am, gate_dict |-> gate_dict]
          /\ \E body \in SwitchSafe(gate, AssignCases(gate_dict)) :
                /\ trace' = body
                /\ amp_matrix' = RunAssigns(am, body)
    /\ pc' = "done"
    /\ ret' = <<>>
    /\ UNCHANGED <<ar, Ig, counter, lib, config, cavity_config, qua, streams>>

\* macros.py:59, 76, 95  qubit_el.play(baseline_op, amp(*amp_matrix))
PlayAmp(qubit_el, baseline_op, am) == Stmt("play", qubit_el, baseline_op, am)

\* macros.py:61  frame_rotation_2pi(0.125, qubit_el.name), angle in thousandths of a turn
FrameRotation(qubit_el) == Stmt("frame_rotation_2pi", qubit_el, "", <<125>>)

\* macros.py:73-76  the cases of play_SW_gate_set
SW_cases(am, qubit_el, baseline_op) ==
    [j \in 0..2 |-> <<PlayAmp(qubit_el, baseline_op, am)>>]

\* macros.py:56-61  the cases of play_T_gate_set
T_cases_AllPlay(am, qubit_el, baseline_op) ==
    [j \in 0..2 |-> <<PlayAmp(qubit_el, baseline_op, am)>>]
T_cases(am, qubit_el, baseline_op) ==
    [j \in 0..2 |-> IF j < 2 THEN <<PlayAmp(qubit_el, baseline_op, am)>>
                             ELSE <<FrameRotation(qubit_el)>>]

\* macros.py:48-61
play_T_gate_set ==
    /\ pc = "idle"
    /\ \E gate \in GateVals, am \in AmpMatrices, qubit_el \in Qubits,
          baseline_op \in BaselineOps :
          /\ op' = "play_T_gate_set"
          /\ args' = [gate |-> gate, amp_matrix |-> am, qubit_el |-> qubit_el,
                      baseline_op |-> baseline_op]
          /\ amp_matrix' = am
          /\ trace' \in SwitchUnsafe(gate, T_cases(am, qubit_el, baseline_op))
    /\ pc' = "done"
    /\ ret' = <<>>
    /\ UNCHANGED <<ar, Ig, counter, lib, config, cavity_config, qua, streams>>

\* macros.py:64-76
play_SW_gate_set ==
    /\ pc = "idle"
    /\ \E gate \in GateVals, am \in AmpMatrices, qubit_el \in Qubits,
          baseline_op \in BaselineOps :
          /\ op' = "play_SW_gate_set"
          /\ args' = [gate |-> gate, amp_matrix |-> am, qubit_el |-> qubit_el,
                      baseline_op |-> baseline_op]
          /\ amp_matrix' = am
          /\ trace' \in SwitchUnsafe(gate, SW_cases(am, qubit_el, baseline_op))
    /\ pc' = "done"
    /\ ret' = <<>>
    /\ UNCHANGED <<ar, Ig, counter, lib, config, cavity_config, qua, streams>>

\* macros.py:90-94  the choice of the playback strategy from gate_dict[2]["gate"]
Strategy_SWFirst(g) ==
    IF g.label = "sw" THEN "SW" ELSE IF g.name = "t" THEN "T" ELSE "play"
Strategy(g) ==
    IF g.name = "t" THEN "T" ELSE IF g.label = "sw" THEN "SW" ELSE "play"

\* macros.py:79-95
play_random_sq_gate ==
    /\ pc = "idle"
    /\ \E gate \in GateVals, am \in AmpMatrices, qubit_el \in Qubits,
          gate_dict \in GateDicts, baseline_op \in BaselineOps :
          /\ op' = "play_random_sq_gate"
          /\ args' = [gate |-> gate, amp_matrix |-> am, qubit_el |-> qubit_el,
                      gate_dict |-> gate_dict, baseline_op |-> baseline_op]
          /\ IF 2 \notin DOMAIN gate_dict
             THEN \* gate_dict[2] raises KeyError
                  /\ pc' = "raised"
                  /\ ret' = <<"KeyError", "2">>
                  /\ UNCHANGED <<trace, amp_matrix>>
             ELSE /\ pc' = "done"
                  /\ ret' = <<>>
                  /\ amp_matrix' = am
                  /\ trace' \in
                       CASE Strategy(gate_dict[2]) = "T" ->
                              SwitchUnsafe(gate, T_cases(am, qubit_el, baseline_op))
                         [] Strategy(gate_dict[2]) = "SW" ->
                              SwitchUnsafe(gate, SW_cases(am, qubit_el, baseline_op))
                         [] OTHER -> {<<PlayAmp(qubit_el, baseline_op, am)>>}
    /\ UNCHANGED <<ar, Ig, counter, lib, config, cavity_config, qua, streams>>

(***************************************************************************)
(* binary, macros.py:195-202                                               *)
(* A Python string is the sequence of its characters.                      *)
(***************************************************************************)
Digit(b) == IF b = 0 THEN "0" ELSE "1"

RECURSIVE BinDigits(_)
BinDigits(n) ==
    IF n < 2 THEN <<Digit(n)>> ELSE BinDigits(n \div 2) \o <<Digit(n % 2)>>

\* the builtin bin(): '0b101' for 5, '-0b101' for -5
bin(n) ==
    IF n < 0 THEN <<"-", "0", "b">> \o BinDigits(0 - n)
             ELSE <<"0", "b">> \o BinDigits(n)

\* the slice s[2:]
SliceFrom2(s) == SubSeq(s, 3, Len(s))

Zeros(k) == [i \in 1..k |-> "0"]

\* str.zfill(width): pads with zeros on the left, after a leading sign if any
zfill_PadRight(s, width) ==
    IF Len(s) >= width THEN s ELSE s \o Zeros(width - Len(s))
zfill(s, width) ==
    IF Len(s) >= width THEN s
    ELSE IF s # <<>> /\ Head(s) \in {"+", "-"}
         THEN <<Head(s)>> \o Zeros(width - Len(s)) \o Tail(s)
         ELSE Zeros(width - Len(s)) \o s

\* macros.py:202
binary_result(n, length) == zfill(SliceFrom2(bin(n)), length)

binary ==
    /\ pc = "idle"
    /\ \E n \in (0 - MaxN)..MaxN, length \in (0 - 1)..MaxLength :
          /\ op' = "binary"
          /\ args' = [n |-> n, length |-> length]
          /\ ret' = binary_result(n, length)
    /\ pc' = "done"
    /\ UNCHANGED <<ar, Ig, counter, trace, amp_matrix, lib, config, cavity_config, qua, streams>>

(***************************************************************************)
(* fit_exponential_decay, macros.py:255-300                                *)
(* Fidelities and the fit parameters are kept in units of 1/4 (1.0 is 4).  *)
(* scipy's linregress and curve_fit are library calls: the arguments they  *)
(* receive are recorded in lib, their results are any the library can      *)
(* give.                                                                   *)
(***************************************************************************)
DepthVals == {1, 2}
FidelityVals == {0 - 1, 0, 1, 3, 4, 5}
FitInputs ==
    UNION { [1..n -> DepthVals] \X [1..n -> FidelityVals] : n \in 0..MaxPoints }

\* macros.py:276  mask = (fidelities > 0) & (fidelities < 1)
Mask_Inclusive(fidelities) ==
    [i \in DOMAIN fidelities |-> (fidelities[i] >= 0) /\ (fidelities[i] <= 4)]
Mask(fidelities) ==
    [i \in DOMAIN fidelities |-> (fidelities[i] > 0) /\ (fidelities[i] < 4)]

\* macros.py:278-279  boolean-mask indexing arr[mask]
RECURSIVE MaskIndex(_, _)
MaskIndex(arr, mask) ==
    IF arr = <<>> THEN <<>>
    ELSE (IF Head(mask) THEN <<Head(arr)>> ELSE <<>>)
         \o MaskIndex(Tail(arr), Tail(mask))

\* macros.py:283  linregress raises ValueError on empty input, and may on
\* input whose x values are all identical
LinregressMayRaise(x) == \A i, j \in DOMAIN x : x[i] = x[j]
LinregressMustRaise(x) == x = <<>>

\* macros.py:288-295  curve_fit with bounds=((0, 0), (1, 1)): the fitted
\* (a, layer_fid) lie within the bounds
CurveFitResults == {0, 2, 4} \X {0, 1, 4}

fit_exponential_decay ==
    /\ pc = "idle"
    /\ \E input \in FitInputs :
          LET cycle_depths == input[1]
              fidelities == input[2]
              mask == Mask(fidelities)
              masked_cycle_depths == MaskIndex(cycle_depths, mask)
              masked_fidelities == MaskIndex(fidelities, mask)
              linregress_call == [fn |-> "linregress", x |-> masked_cycle_depths,
                                  y |-> masked_fidelities]
              curve_fit_call == [fn |-> "curve_fit", x |-> masked_cycle_depths,
                                 y |-> masked_fidelities]
          IN
          /\ op' = "fit_exponential_decay"
          /\ args' = [cycle_depths |-> cycle_depths, fidelities |-> fidelities]
          /\ \/ \* linregress raises
                /\ LinregressMayRaise(masked_cycle_depths)
                /\ lib' = <<linregress_call>>
                /\ pc' = "raised"
                /\ ret' = <<"ValueError">>
             \/ \* curve_fit returns the fitted parameters
                /\ ~LinregressMustRaise(masked_cycle_depths)
                /\ lib' = <<linregress_call, curve_fit_call>>
                /\ pc' = "done"
                /\ \E r \in CurveFitResults :
                      ret' = <<"return", [a |-> r[1], layer_fid |-> r[2],
                              a_std |-> "estimated", layer_fid_std |-> "estimated"]>>
             \/ \* curve_fit raises ValueError: macros.py:296-297
                /\ ~LinregressMustRaise(masked_cycle_depths)
                /\ lib' = <<linregress_call, curve_fit_call>>
                /\ pc' = "done"
                /\ ret' = <<"return", [a |-> 0, layer_fid |-> 0,
                           a_std |-> "inf", layer_fid_std |-> "inf"]>>
             \/ \* curve_fit raises another exception (no convergence)
                /\ ~LinregressMustRaise(masked_cycle_depths)
                /\ lib' = <<linregress_call, curve_fit_call>>
                /\ pc' = "raised"
                /\ ret' = <<"RuntimeError">>
    /\ UNCHANGED <<ar, Ig, counter, trace, amp_matrix, config, cavity_config, qua, streams>>

(***************************************************************************)
(* IQ_imbalance and the mixer table, two_qubit_rb_config.py:14-26, 584-613 *)
(* Floats are exact rationals [n, d] here; a division by zero gives a      *)
(* non-finite float (numpy warns and yields inf or nan, it does not        *)
(* raise), and non-finite values propagate.                                *)
(***************************************************************************)
RECURSIVE GCD(_, _)
GCD(a, b) == IF b = 0 THEN a ELSE GCD(b, a % b)
Abs(x) == IF x < 0 THEN 0 - x ELSE x

NonFinite == [fin |-> FALSE, n |-> 0, d |-> 1]
R(n, d) ==
    IF d = 0 THEN NonFinite
    ELSE LET g == GCD(Abs(n), Abs(d))
             sgn == IF d < 0 THEN 0 - 1 ELSE 1 IN
         [fin |-> TRUE, n |-> sgn * (n \div g), d |-> sgn * (d \div g)]
RMul(x, y) == IF x.fin /\ y.fin THEN R(x.n * y.n, x.d * y.d) ELSE NonFinite
RAdd(x, y) == IF x.fin /\ y.fin THEN R(x.n * y.d + y.n * x.d, x.d * y.d) ELSE NonFinite
RSub(x, y) == IF x.fin /\ y.fin THEN R(x.n * y.d - y.n * x.d, x.d * y.d) ELSE NonFinite
RDiv(x, y) == IF x.fin /\ y.fin THEN R(x.n * y.d, x.d * y.n) ELSE NonFinite

\* np.cos and np.sin on the angles of the model
Angles == {"0", "atan(3/4)", "atan(4/3)", "-atan(3/4)"}
Cos(phi) ==
    CASE phi = "0" -> R(1, 1)
      [] phi = "atan(3/4)" -> R(4, 5)
      [] phi = "atan(4/3)" -> R(3, 5)
      [] phi = "-atan(3/4)" -> R(4, 5)
Sin(phi) ==
    CASE phi = "0" -> R(0, 1)
      [] phi = "atan(3/4)" -> R(3, 5)
      [] phi = "atan(4/3)" -> R(4, 5)
      [] phi = "-atan(3/4)" -> R(0 - 3, 5)

GainVals == {R(0, 1), R(1, 2), R(0 - 1, 2), R(1, 1), R(2, 1)}

\* two_qubit_rb_config.py:23-26
IQ_imbalance_Swapped(g, phi) ==
    LET c == Cos(phi)
        s == Sin(phi)
        N == RDiv(R(1, 1), RMul(RSub(R(1, 1), RMul(g, g)),
                                RSub(RMul(R(2, 1), RMul(c, c)), R(1, 1))))
    IN << RMul(N, RMul(RSub(R(1, 1), g), s)),
          RMul(N, RMul(RAdd(R(1, 1), g), c)),
          RMul(N, RMul(RSub(R(1, 1), g), c)),
          RMul(N, RMul(RAdd(R(1, 1), g), s)) >>
IQ_imbalance(g, phi) ==
    LET c == Cos(phi)
        s == Sin(phi)
        N == RDiv(R(1, 1), RMul(RSub(R(1, 1), RMul(g, g)),
                                RSub(RMul(R(2, 1), RMul(c, c)), R(1, 1))))
    IN << RMul(N, RMul(RSub(R(1, 1), g), c)),
          RMul(N, RMul(RAdd(R(1, 1), g), s)),
          RMul(N, RMul(RSub(R(1, 1), g), s)),
          RMul(N, RMul(RAdd(R(1, 1), g), c)) >>

\* a call of IQ_imbalance with arbitrary imbalances
IQ_imbalance_call ==
    /\ pc = "idle"
    /\ \E g \in GainVals, phi \in Angles :
          /\ op' = "IQ_imbalance"
          /\ args' = [g |-> g, phi |-> phi]
          /\ ret' = IQ_imbalance(g, phi)
    /\ pc' = "done"
    /\ UNCHANGED <<ar, Ig, counter, trace, amp_matrix, lib, config, cavity_config, qua, streams>>

\* two_qubit_rb_config.py:75-82, 180-189  (frequencies in MHz)
qe0_IF == 50
qe0_LO == 7000
mixer_qe0_g == R(0, 1)
mixer_qe0_phi == "0"
qe1_IF == 50
qe1_LO == 7000
mixer_qe1_g == R(0, 1)
mixer_qe1_phi == "0"
rr0_IF == 60
rr0_LO == 5500
mixer_rr0_g == R(0, 1)
mixer_rr0_phi == "0"
rr1_IF == 60
rr1_LO == 5500
mixer_rr1_g == R(0, 1)
mixer_rr1_phi == "0"

MixerEntry(if_freq, lo_freq, g, phi) ==
    [intermediate_frequency |-> if_freq, lo_frequency |-> lo_freq,
     correction |-> IQ_imbalance(g, phi)]

\* two_qubit_rb_config.py:584-613  config["mixers"]
two_qubit_rb_mixers ==
    [name \in {"mixer_qe0", "mixer_qe1", "mixer_rr0", "mixer_rr1"} |->
        CASE name = "mixer_qe0" ->
               <<MixerEntry(qe0_IF, qe0_LO, mixer_qe0_g, mixer_qe0_phi)>>
          [] name = "mixer_qe1" ->
               <<MixerEntry(qe1_IF, qe1_LO, mixer_qe1_g, mixer_qe1_phi)>>
          [] name = "mixer_rr0" ->
               <<MixerEntry(rr0_IF, rr0_LO, mixer_rr0_g, mixer_rr0_phi)>>
          [] name = "mixer_rr1" ->
               <<MixerEntry(rr1_IF, rr1_LO, mixer_rr1_g, mixer_rr1_phi)>>]

(***************************************************************************)
(* The configuration dictionary of two_qubit_rb_config.py:208-614          *)
(* A Python dict is a function on its keys; lengths are in ns, amplitudes  *)
(* exact rationals.  The samples of the arbitrary waveforms are arrays     *)
(* computed by library functions and are named, not expanded.              *)
(***************************************************************************)
\* two_qubit_rb_config.py:86-206
saturation_len == 1000
saturation_amp == R(1, 10)
const_len == 100
const_amp == R(1, 10)
square_pi_len == 100
square_pi_amp == R(1, 10)
gauss_len == 200
displace_len == 40
x180_len == 40
x90_len == x180_len
minus_x90_len == x180_len
y180_len == x180_len
y90_len == x180_len
minus_y90_len == y180_len
time_of_flight == 180
short_readout_len == 500
short_readout_amp == R(4, 10)
readout_len == 500
readout_amp == R(1, 10)
long_readout_len == 50000
long_readout_amp == R(1, 10)
rotation_angle == "0"
const_flux_len == 612
const_flux_amp == R(5, 100)

RNeg(x) == RSub(R(0, 1), x)

\* two_qubit_rb_config.py:210-227  config["controllers"]
rb_controllers ==
    [con1 |->
        [analog_outputs |-> [port \in 1..7 |-> [offset |-> R(0, 1)]],
         digital_outputs |-> <<>>,
         analog_inputs |-> [port \in 1..2 |-> [offset |-> R(0, 1), gain_db |-> 0]]]]

\* two_qubit_rb_config.py:237-249
qe0_operations ==
    ("cw" :> "const_pulse") @@
    ("saturation" :> "saturation_pulse") @@
    ("gauss" :> "gaussian_pulse") @@
    ("pi" :> "x180_pulse") @@
    ("pi_half" :> "x90_pulse") @@
    ("x90" :> "x90_pulse") @@
    ("x180" :> "x180_pulse") @@
    ("-x90" :> "-x90_pulse") @@
    ("y90" :> "y90_pulse") @@
    ("y180" :> "y180_pulse") @@
    ("-y90" :> "-y90_pulse")

\* two_qubit_rb_config.py:259-271
qe1_operations ==
    ("cw" :> "const_pulse") @@
    ("saturation" :> "saturation_pulse") @@
    ("gauss" :> "gaussian_pulse") @@
    ("pi" :> "x180_pulse") @@
    ("pi_half" :> "x90_pulse") @@
    ("x90" :> "x90_pulse") @@
    ("x180" :> "x180_pulse") @@
    ("-x90" :> "-x90_pulse") @@
    ("y90" :> "y90_pulse") @@
    ("y180" :> "y180_pulse") @@
    ("-y90" :> "-y90_pulse")

\* two_qubit_rb_config.py:293-299
rr0_operations ==
    ("cw" :> "const_pulse") @@
    ("displace" :> "displace_pulse") @@
    ("short_readout" :> "short_readout_pulse") @@
    ("readout" :> "readout_pulse") @@
    ("long_readout" :> "long_readout_pulse")

\* two_qubit_rb_config.py:315-321
rr1_operations ==
    ("cw" :> "const_pulse") @@
    ("displace" :> "displace_pulse") @@
    ("short_readout" :> "short_readout_pulse") @@
    ("readout" :> "readout_pulse") @@
    ("long_readout" :> "long_readout_pulse")

\* two_qubit_rb_config.py:333-335
qubit0_flux_qe_operations_WrongPulse == "iswap_pulse" :> "const_pulse"
qubit0_flux_qe_operations == "iswap_pulse" :> "const_flux_pulse"

\* two_qubit_rb_config.py:229-250
element_qe0 ==
    [mixInputs |-> [I |-> <<"con1", 1>>, Q |-> <<"con1", 2>>,
                    lo_frequency |-> qe0_LO, mixer |-> "mixer_qe0"],
     intermediate_frequency |-> qe0_IF,
     operations |-> qe0_operations]

\* two_qubit_rb_config.py:251-272
element_qe1 ==
    [mixInputs |-> [I |-> <<"con1", 5>>, Q |-> <<"con1", 6>>,
                    lo_frequency |-> qe1_LO, mixer |-> "mixer_qe1"],
     intermediate_frequency |-> qe1_IF,
     operations |-> qe1_operations]

\* two_qubit_rb_config.py:273-284
element_crtqe1cqe0_OwnMixer ==
    [mixInputs |-> [I |-> <<"con1", 1>>, Q |-> <<"con1", 2>>,
                    lo_frequency |-> qe0_LO, mixer |-> "mixer_crtqe1cqe0"],
     intermediate_frequency |-> qe1_IF,
     operations |-> ("cw" :> "const_pulse")]
element_crtqe1cqe0 ==
    [mixInputs |-> [I |-> <<"con1", 1>>, Q |-> <<"con1", 2>>,
                    lo_frequency |-> qe0_LO, mixer |-> "mixer_qe1"],
     intermediate_frequency |-> qe1_IF,
     operations |-> ("cw" :> "const_pulse")]

\* two_qubit_rb_config.py:285-306
element_rr0 ==
    [mixInputs |-> [I |-> <<"con1", 3>>, Q |-> <<"con1", 4>>,
                    lo_frequency |-> rr0_LO, mixer |-> "mixer_rr0"],
     intermediate_frequency |-> rr0_IF,
     operations |-> rr0_operations,
     outputs |-> [out1 |-> <<"con1", 1>>, out2 |-> <<"con1", 2>>],
     time_of_flight |-> time_of_flight,
     smearing |-> 0]

\* two_qubit_rb_config.py:307-328
element_rr1 ==
    [mixInputs |-> [I |-> <<"con1", 3>>, Q |-> <<"con1", 4>>,
                    lo_frequency |-> rr1_LO, mixer |-> "mixer_rr1"],
     intermediate_frequency |-> rr1_IF,
     operations |-> rr1_operations,
     outputs |-> [out1 |-> <<"con1", 1>>, out2 |-> <<"con1", 2>>],
     time_of_flight |-> time_of_flight,
     smearing |-> 0]

\* two_qubit_rb_config.py:329-336
element_qubit0_flux_qe ==
    [singleInput |-> [port |-> <<"con1", 7>>],
     operations |-> qubit0_flux_qe_operations]

\* two_qubit_rb_config.py:228-337  config["elements"]
rb_elements ==
    ("qe0" :> element_qe0) @@
    ("qe1" :> element_qe1) @@
    ("crtqe1cqe0" :> element_crtqe1cqe0) @@
    ("rr0" :> element_rr0) @@
    ("rr1" :> element_rr1) @@
    ("qubit0_flux_qe" :> element_qubit0_flux_qe)

\* the shapes of the entries of config["pulses"]
ControlPulse(length, waveforms) ==
    [operation |-> "control", length |-> length, waveforms |-> waveforms]
MeasurementPulse(length, waveforms, integration_weights, digital_marker) ==
    [operation |-> "measurement", length |-> length, waveforms |-> waveforms,
     integration_weights |-> integration_weights, digital_marker |-> digital_marker]
IQWaveforms(i, q) == [I |-> i, Q |-> q]
SingleWaveform(w) == [single |-> w]

\* two_qubit_rb_config.py:438-445
short_readout_weights ==
        ("cos" :> "short_cosine_weights") @@
        ("sin" :> "short_sine_weights") @@
        ("minus_sin" :> "short_minus_sine_weights") @@
        ("rotated_cos" :> "short_rotated_cosine_weights") @@
        ("rotated_sin" :> "short_rotated_sine_weights") @@
        ("rotated_minus_sin" :> "short_rotated_minus_sine_weights")

\* two_qubit_rb_config.py:455-462
readout_weights ==
        ("cos" :> "cosine_weights") @@
        ("sin" :> "sine_weights") @@
        ("minus_sin" :> "minus_sine_weights") @@
        ("rotated_cos" :> "rotated_cosine_weights") @@
        ("rotated_sin" :> "rotated_sine_weights") @@
        ("rotated_minus_sin" :> "rotated_minus_sine_weights")

\* two_qubit_rb_config.py:472-479
long_readout_weights ==
        ("cos" :> "long_cosine_weights") @@
        ("sin" :> "long_sine_weights") @@
        ("minus_sin" :> "long_minus_sine_weights") @@
        ("rotated_cos" :> "long_rotated_cosine_weights") @@
        ("rotated_sin" :> "long_rotated_sine_weights") @@
        ("rotated_minus_sin" :> "long_rotated_minus_sine_weights")

\* two_qubit_rb_config.py:338-482  config["pulses"]
rb_pulses ==
    ("const_flux_pulse" :>
        ControlPulse(const_flux_len, SingleWaveform("const_flux_wf"))) @@
    ("const_pulse" :>
        ControlPulse(const_len, IQWaveforms("const_wf", "zero_wf"))) @@
    ("square_pi_pulse" :>
        ControlPulse(square_pi_len, IQWaveforms("square_pi_wf", "zero_wf"))) @@
    ("saturation_pulse" :>
        ControlPulse(saturation_len, IQWaveforms("saturation_drive_wf", "zero_wf"))) @@
    ("gaussian_pulse" :>
        ControlPulse(gauss_len, IQWaveforms("gauss_wf", "zero_wf"))) @@
    ("displace_pulse" :>
        ControlPulse(displace_len, IQWaveforms("displace_wf", "displace_wf"))) @@
    ("x90_pulse" :>
        ControlPulse(x90_len, IQWaveforms("x90_I_wf", "x90_Q_wf"))) @@
    ("x180_pulse" :>
        ControlPulse(x180_len, IQWaveforms("x180_I_wf", "x180_Q_wf"))) @@
    ("-x90_pulse" :>
        ControlPulse(minus_x90_len, IQWaveforms("minus_x90_I_wf", "minus_x90_Q_wf"))) @@
    ("y90_pulse" :>
        ControlPulse(y90_len, IQWaveforms("y90_I_wf", "y90_Q_wf"))) @@
    ("y180_pulse" :>
        ControlPulse(y180_len, IQWaveforms("y180_I_wf", "y180_Q_wf"))) @@
    ("-y90_pulse" :>
        ControlPulse(minus_y90_len, IQWaveforms("minus_y90_I_wf", "minus_y90_Q_wf"))) @@
    ("short_readout_pulse" :>
        MeasurementPulse(short_readout_len, IQWaveforms("short_readout_wf", "zero_wf"),
                         short_readout_weights, "ON")) @@
    ("readout_pulse" :>
        MeasurementPulse(readout_len, IQWaveforms("readout_wf", "zero_wf"),
                         readout_weights, "ON")) @@
    ("long_readout_pulse" :>
        MeasurementPulse(long_readout_len, IQWaveforms("long_readout_wf", "zero_wf"),
                         long_readout_weights, "ON"))

ConstantWaveform(sample) == [type |-> "constant", sample |-> sample]
ArbitraryWaveform(samples) == [type |-> "arbitrary", samples |-> samples]

\* two_qubit_rb_config.py:483-506  config["waveforms"]
rb_waveforms ==
    ("const_flux_wf" :> ConstantWaveform(const_flux_amp)) @@
    ("const_wf" :> ConstantWaveform(const_amp)) @@
    ("saturation_drive_wf" :> ConstantWaveform(saturation_amp)) @@
    ("square_pi_wf" :> ConstantWaveform(square_pi_amp)) @@
    ("displace_wf" :> ArbitraryWaveform("displace_wf")) @@
    ("zero_wf" :> ConstantWaveform(R(0, 1))) @@
    ("gauss_wf" :> ArbitraryWaveform("gauss_wf")) @@
    ("x90_I_wf" :> ArbitraryWaveform("x90_I_wf")) @@
    ("x90_Q_wf" :> ArbitraryWaveform("x90_Q_wf")) @@
    ("x180_I_wf" :> ArbitraryWaveform("x180_I_wf")) @@
    ("x180_Q_wf" :> ArbitraryWaveform("x180_Q_wf")) @@
    ("minus_x90_I_wf" :> ArbitraryWaveform("minus_x90_I_wf")) @@
    ("minus_x90_Q_wf" :> ArbitraryWaveform("minus_x90_Q_wf")) @@
    ("y90_Q_wf" :> ArbitraryWaveform("y90_Q_wf")) @@
    ("y90_I_wf" :> ArbitraryWaveform("y90_I_wf")) @@
    ("y180_Q_wf" :> ArbitraryWaveform("y180_Q_wf")) @@
    ("y180_I_wf" :> ArbitraryWaveform("y180_I_wf")) @@
    ("minus_y90_Q_wf" :> ArbitraryWaveform("minus_y90_Q_wf")) @@
    ("minus_y90_I_wf" :> ArbitraryWaveform("minus_y90_I_wf")) @@
    ("short_readout_wf" :> ConstantWaveform(short_readout_amp)) @@
    ("readout_wf" :> ConstantWaveform(readout_amp)) @@
    ("long_readout_wf" :> ConstantWaveform(long_readout_amp))

\* two_qubit_rb_config.py:507-509  config["digital_waveforms"]
rb_digital_waveforms == [ON |-> [samples |-> << <<1, 0>> >>]]

IntegrationWeights(cosine, sine, length) ==
    [cosine |-> << <<cosine, length>> >>, sine |-> << <<sine, length>> >>]

\* the six weights of one readout length: two_qubit_rb_config.py:511-534,
\* 535-558, 559-582
WeightSet(names, length) ==
    LET c == Cos(rotation_angle)
        s == Sin(rotation_angle)
    IN
    (names[1] :> IntegrationWeights(R(1, 1), R(0, 1), length)) @@
    (names[2] :> IntegrationWeights(R(0, 1), R(1, 1), length)) @@
    (names[3] :> IntegrationWeights(R(0, 1), R(0 - 1, 1), length)) @@
    (names[4] :> IntegrationWeights(c, RNeg(s), length)) @@
    (names[5] :> IntegrationWeights(s, c, length)) @@
    (names[6] :> IntegrationWeights(RNeg(s), RNeg(c), length))

\* two_qubit_rb_config.py:510-583  config["integration_weights"]
rb_integration_weights ==
    WeightSet(<<"short_cosine_weights", "short_sine_weights",
                "short_minus_sine_weights", "short_rotated_cosine_weights",
                "short_rotated_sine_weights", "short_rotated_minus_sine_weights">>,
              short_readout_len) @@
    WeightSet(<<"cosine_weights", "sine_weights",
                "minus_sine_weights", "rotated_cosine_weights",
                "rotated_sine_weights", "rotated_minus_sine_weights">>,
              readout_len) @@
    WeightSet(<<"long_cosine_weights", "long_sine_weights",
                "long_minus_sine_weights", "long_rotated_cosine_weights",
                "long_rotated_sine_weights", "long_rotated_minus_sine_weights">>,
              long_readout_len)

\* two_qubit_rb_config.py:208-614  config
two_qubit_rb_config ==
    [version |-> 1,
     controllers |-> rb_controllers,
     elements |-> rb_elements,
     pulses |-> rb_pulses,
     waveforms |-> rb_waveforms,
     digital_waveforms |-> rb_digital_waveforms,
     integration_weights |-> rb_integration_weights,
     mixers |-> two_qubit_rb_mixers]

(***************************************************************************)
(* The configuration dictionary of                                         *)
(* configuration_cavity_locking_ETHZ_OPX1.py:53-174.  The module-level     *)
(* names of that file carry the prefix cavity_; its frequencies are in kHz.*)
(***************************************************************************)
\* configuration_cavity_locking_ETHZ_OPX1.py:33-51
cavity_phase_modulation_IF == 250
cavity_phase_mod_amplitude == R(48, 100)
cavity_phase_mod_len == 100 * 1000
cavity_const_amplitude == R(1, 10)
cavity_const_len == 100
cavity_offset_amplitude == R(25, 100)
cavity_offset_len == 16
cavity_setpoint_filter_cavity_1 == R(0, 1)
cavity_readout_len == cavity_phase_mod_len
cavity_time_of_flight == 192

\* configuration_cavity_locking_ETHZ_OPX1.py:55-67  config["controllers"]
cavity_controllers ==
    [con1 |->
        [analog_outputs |-> (6 :> [offset |-> cavity_setpoint_filter_cavity_1]) @@
                            (8 :> [offset |-> R(0, 1)]),
         digital_outputs |-> <<>>,
         analog_inputs |-> (2 :> [offset |-> R(0, 1)])]]

\* configuration_cavity_locking_ETHZ_OPX1.py:69-77
element_phase_modulator ==
    [singleInput |-> [port |-> <<"con1", 8>>],
     intermediate_frequency |-> cavity_phase_modulation_IF,
     operations |-> ("cw" :> "phase_mod_pulse")]

\* configuration_cavity_locking_ETHZ_OPX1.py:78-86
element_filter_cavity_1 ==
    [singleInput |-> [port |-> <<"con1", 6>>],
     operations |-> ("offset" :> "offset_pulse"),
     sticky |-> [analog |-> TRUE, duration |-> 60]]

\* configuration_cavity_locking_ETHZ_OPX1.py:87-99
element_detector_DC ==
    [singleInput |-> [port |-> <<"con1", 6>>],
     operations |-> ("readout" :> "DC_readout_pulse"),
     outputs |-> [out1 |-> <<"con1", 2>>],
     time_of_flight |-> cavity_time_of_flight,
     smearing |-> 0]

\* configuration_cavity_locking_ETHZ_OPX1.py:100-113
element_detector_AC ==
    [singleInput |-> [port |-> <<"con1", 6>>],
     intermediate_frequency |-> cavity_phase_modulation_IF,
     operations |-> ("readout" :> "AC_readout_pulse"),
     outputs |-> [out1 |-> <<"con1", 2>>],
     time_of_flight |-> cavity_time_of_flight,
     smearing |-> 0]

\* configuration_cavity_locking_ETHZ_OPX1.py:68-114  config["elements"]
cavity_elements ==
    ("phase_modulator" :> element_phase_modulator) @@
    ("filter_cavity_1" :> element_filter_cavity_1) @@
    ("detector_DC" :> element_detector_DC) @@
    ("detector_AC" :> element_detector_AC)

\* configuration_cavity_locking_ETHZ_OPX1.py:115-159  config["pulses"]
cavity_pulses ==
    ("offset_pulse" :>
        ControlPulse(cavity_offset_len, SingleWaveform("offset_wf"))) @@
    ("phase_mod_pulse" :>
        ControlPulse(cavity_phase_mod_len, SingleWaveform("phase_mod_wf"))) @@
    ("cw_pulse" :>
        ControlPulse(cavity_const_len, SingleWaveform("const_wf"))) @@
    ("DC_readout_pulse" :>
        MeasurementPulse(cavity_readout_len, SingleWaveform("zero_wf"),
                         "constant" :> "constant_weights", "ON")) @@
    ("AC_readout_pulse" :>
        MeasurementPulse(cavity_readout_len, SingleWaveform("zero_wf"),
                         "constant" :> "constant_weights", "ON"))

\* configuration_cavity_locking_ETHZ_OPX1.py:160-165  config["waveforms"]
cavity_waveforms ==
    ("phase_mod_wf" :> ConstantWaveform(cavity_phase_mod_amplitude)) @@
    ("const_wf" :> ConstantWaveform(cavity_const_amplitude)) @@
    ("offset_wf" :> ConstantWaveform(cavity_offset_amplitude)) @@
    ("zero_wf" :> ConstantWaveform(R(0, 1)))

\* configuration_cavity_locking_ETHZ_OPX1.py:166-167  config["digital_waveforms"]
cavity_digital_waveforms ==
    [ON |-> [samples |-> << <<1, 0>> >>], OFF |-> [samples |-> << <<0, 0>> >>]]

\* configuration_cavity_locking_ETHZ_OPX1.py:168-173  config["integration_weights"]
cavity_integration_weights ==
    "constant_weights" :> IntegrationWeights(R(1, 1), R(0, 1), cavity_readout_len)

\* configuration_cavity_locking_ETHZ_OPX1.py:53-174  config
cavity_locking_config ==
    [version |-> 1,
     controllers |-> cavity_controllers,
     elements |-> cavity_elements,
     pulses |-> cavity_pulses,
     waveforms |-> cavity_waveforms,
     digital_waveforms |-> cavity_digital_waveforms,
     integration_weights |-> cavity_integration_weights]

(***************************************************************************)
(* Stream processing, shared by the two experiment scripts.  The value of  *)
(* a demodulated sample is not modelled: a sample is identified by the     *)
(* values of the loop variables of the iteration that acquired it.         *)
(***************************************************************************)
\* stream.buffer(n): the complete groups of n consecutive items
Buffer(stream, n) ==
    [i \in 1..(Len(stream) \div n) |-> SubSeq(stream, (i - 1) * n + 1, i * n)]

\* np.mean of one record, and .average() over the buffers received so far
Mean(record) == [mean_of |-> record]
Average(buffers) ==
    IF buffers = <<>> THEN <<>>
    ELSE [k \in 1..Len(buffers[1]) |->
            Mean([i \in 1..Len(buffers) |-> buffers[i][k]])]

(***************************************************************************)
(* timeRabiProg, Time_Rabi_Exp.py:13-76                                    *)
(***************************************************************************)
t_max == 100
dt == 1
N_max == 3

\* Time_Rabi_Exp.py:29  the condition of the sweep over t
RabiOuterCond(t) == t <= t_max

\* Time_Rabi_Exp.py:30  the condition of the repetition loop
RabiInnerCond_Inclusive(Nrep) == Nrep <= N_max
RabiInnerCond(Nrep) == Nrep < N_max

\* Time_Rabi_Exp.py:21-29  the program starts: for_ initialises t
timeRabiProg ==
    /\ pc = "idle"
    /\ op' = "timeRabiProg"
    /\ args' = [t_max |-> t_max, dt |-> dt, N_max |-> N_max]
    /\ qua' = [t |-> 0, Nrep |-> 0, I |-> <<>>, Q |-> <<>>]
    /\ streams' = NoStreams
    /\ trace' = <<>>
    /\ ret' = <<>>
    /\ pc' = "rabi_outer"
    /\ UNCHANGED <<ar, Ig, counter, amp_matrix, lib, config, cavity_config>>

\* Time_Rabi_Exp.py:29  test of the outer for_; entering the body
\* initialises Nrep (line 30)
rabi_outer ==
    /\ pc = "rabi_outer"
    /\ IF RabiOuterCond(qua.t)
       THEN /\ qua' = [qua EXCEPT !.Nrep = 0]
            /\ pc' = "rabi_inner"
       ELSE /\ pc' = "rabi_end"
            /\ UNCHANGED qua
    /\ UNCHANGED <<op, args, ar, Ig, counter, trace, amp_matrix, ret, lib, config,
                   cavity_config, streams>>

\* Time_Rabi_Exp.py:30  test of the inner for_
rabi_inner ==
    /\ pc = "rabi_inner"
    /\ pc' = IF RabiInnerCond(qua.Nrep) THEN "rabi_play" ELSE "rabi_save_t"
    /\ UNCHANGED <<op, args, ar, Ig, counter, trace, amp_matrix, ret, lib, config,
                   cavity_config, qua, streams>>

\* Time_Rabi_Exp.py:32
rabi_play ==
    /\ pc = "rabi_play"
    /\ trace' = Append(trace, Stmt("play", "qubit", "gauss_pulse", <<qua.t>>))
    /\ pc' = "rabi_align"
    /\ UNCHANGED <<op, args, ar, Ig, counter, amp_matrix, ret, lib, config,
                   cavity_config, qua, streams>>

\* Time_Rabi_Exp.py:33
rabi_align ==
    /\ pc = "rabi_align"
    /\ trace' = Append(trace, Stmt("align", "qubit", "RR", <<>>))
    /\ pc' = "rabi_measure"
    /\ UNCHANGED <<op, args, ar, Ig, counter, amp_matrix, ret, lib, config,
                   cavity_config, qua, streams>>

\* Time_Rabi_Exp.py:34
rabi_measure ==
    /\ pc = "rabi_measure"
    /\ qua' = [qua EXCEPT !.I = <<qua.t, qua.Nrep>>, !.Q = <<qua.t, qua.Nrep>>]
    /\ trace' = Append(trace, Stmt("measure", "RR", "meas_pulse", <<qua.t, qua.Nrep>>))
    /\ pc' = "rabi_save_I"
    /\ UNCHANGED <<op, args, ar, Ig, counter, amp_matrix, ret, lib, config,
                   cavity_config, streams>>

\* Time_Rabi_Exp.py:35
rabi_save_I ==
    /\ pc = "rabi_save_I"
    /\ streams' = [streams EXCEPT !.I = Append(@, qua.I)]
    /\ trace' = Append(trace, Stmt("save", "I_stream", "I", qua.I))
    /\ pc' = "rabi_save_Q"
    /\ UNCHANGED <<op, args, ar, Ig, counter, amp_matrix, ret, lib, config,
                   cavity_config, qua>>

\* Time_Rabi_Exp.py:36, and the update Nrep + 1 of the inner for_ (line 30)
rabi_save_Q ==
    /\ pc = "rabi_save_Q"
    /\ streams' = [streams EXCEPT !.Q = Append(@, qua.Q)]
    /\ trace' = Append(trace, Stmt("save", "Q_stream", "Q", qua.Q))
    /\ qua' = [qua EXCEPT !.Nrep = @ + 1]
    /\ pc' = "rabi_inner"
    /\ UNCHANGED <<op, args, ar, Ig, counter, amp_matrix, ret, lib, config,
                   cavity_config>>

\* Time_Rabi_Exp.py:38, and the update t + dt of the outer for_ (line 29)
rabi_save_t ==
    /\ pc = "rabi_save_t"
    /\ streams' = [streams EXCEPT !.t = Append(@, qua.t)]
    /\ trace' = Append(trace, Stmt("save", "t", "t", <<qua.t>>))
    /\ qua' = [qua EXCEPT !.t = @ + dt]
    /\ pc' = "rabi_outer"
    /\ UNCHANGED <<op, args, ar, Ig, counter, amp_matrix, ret, lib, config,
                   cavity_config>>

\* Time_Rabi_Exp.py:39-41, 46-49, 61-65  stream processing, fetch_all and
\* the averages of the fetched records
rabi_fetch ==
    /\ pc = "rabi_end"
    /\ LET I1 == Buffer(streams.I, N_max)
           Q1 == Buffer(streams.Q, N_max)
           t1 == streams.t IN
       ret' = <<"fetched", [I1 |-> I1, Q1 |-> Q1, t1 |-> t1,
               I_avg |-> [i \in 1..Len(I1) |-> Mean(I1[i])],
               Q_avg |-> [i \in 1..Len(I1) |-> Mean(Q1[i])]]>>
    /\ pc' = "done"
    /\ UNCHANGED <<op, args, ar, Ig, counter, trace, amp_matrix, lib, config,
                   cavity_config, qua, streams>>

(***************************************************************************)
(* res_spec, 04_resonator_spectroscopy_single.py:24-86                     *)
(* Frequencies are in units of 0.5 MHz.  The sweep of the script (601      *)
(* frequencies, 1000 averages) is cut to MaxFreqs frequencies and MaxAvg   *)
(* averages: n_avg and the stop of np.arange are inputs of the model.      *)
(***************************************************************************)
freqs_start == 0 - 601
freqs_step == 2
depletion_time == 1000

\* np.arange(start, stop, step) for step > 0, as a 0-indexed array
arange(start, stop, step) ==
    LET n == IF stop <= start THEN 0 ELSE ((stop - start) + step - 1) \div step IN
    [i \in 0..(n - 1) |-> start + i * step]

len(array) == Cardinality(DOMAIN array)

\* qualang_tools.loops.from_array for an arithmetic progression and an int
\* variable: (var, array[0], var <= array[-1], var + step)
FromArrayInit(array) == array[0]
FromArrayCond_Exclusive(f, array) == f < array[len(array) - 1]
FromArrayCond(f, array) == f <= array[len(array) - 1]
FromArrayStep(array) == IF len(array) = 1 THEN 1 ELSE array[1] - array[0]

\* 04_resonator_spectroscopy_single.py:37  the condition of the averaging loop
ResSpecOuterCond(n, n_avg) == n < n_avg

\* 04_resonator_spectroscopy_single.py:24-37  the program starts
res_spec ==
    /\ pc = "idle"
    /\ \E n_avg \in 1..MaxAvg, nf \in 1..MaxFreqs :
          LET freqs == arange(freqs_start, freqs_start + freqs_step * nf - 1,
                              freqs_step) IN
          /\ args' = [freqs |-> freqs, n_avg |-> n_avg,
                      depletion_time |-> depletion_time]
          /\ qua' = [n |-> 0, f |-> FromArrayInit(freqs), I |-> <<>>, Q |-> <<>>]
    /\ op' = "res_spec"
    /\ streams' = NoStreams
    /\ trace' = <<>>
    /\ ret' = <<>>
    /\ pc' = "rs_outer"
    /\ UNCHANGED <<ar, Ig, counter, amp_matrix, lib, config, cavity_config>>

\* 04_resonator_spectroscopy_single.py:37  test of the outer for_; entering
\* the body initialises f (line 38)
rs_outer ==
    /\ pc = "rs_outer"
    /\ IF ResSpecOuterCond(qua.n, args.n_avg)
       THEN /\ qua' = [qua EXCEPT !.f = FromArrayInit(args.freqs)]
            /\ pc' = "rs_inner"
       ELSE /\ pc' = "rs_end"
            /\ UNCHANGED qua
    /\ UNCHANGED <<op, args, ar, Ig, counter, trace, amp_matrix, ret, lib, config,
                   cavity_config, streams>>

\* 04_resonator_spectroscopy_single.py:38  test of the inner for_; leaving it
\* performs the update n + 1 of the outer for_ (line 37)
rs_inner ==
    /\ pc = "rs_inner"
    /\ IF FromArrayCond(qua.f, args.freqs)
       THEN /\ pc' = "rs_update_frequency"
            /\ UNCHANGED qua
       ELSE /\ qua' = [qua EXCEPT !.n = @ + 1]
            /\ pc' = "rs_outer"
    /\ UNCHANGED <<op, args, ar, Ig, counter, trace, amp_matrix, ret, lib, config,
                   cavity_config, streams>>

\* 04_resonator_spectroscopy_single.py:39
rs_update_frequency ==
    /\ pc = "rs_update_frequency"
    /\ trace' = Append(trace, Stmt("update_frequency", "rr0", "", <<qua.f>>))
    /\ pc' = "rs_measure"
    /\ UNCHANGED <<op, args, ar, Ig, counter, amp_matrix, ret, lib, config,
                   cavity_config, qua, streams>>

\* 04_resonator_spectroscopy_single.py:41-47
rs_measure ==
    /\ pc = "rs_measure"
    /\ qua' = [qua EXCEPT !.I = <<qua.n, qua.f>>, !.Q = <<qua.n, qua.f>>]
    /\ trace' = Append(trace, Stmt("measure", "rr0", "readout", <<qua.n, qua.f>>))
    /\ pc' = "rs_wait"
    /\ UNCHANGED <<op, args, ar, Ig, counter, amp_matrix, ret, lib, config,
                   cavity_config, streams>>

\* 04_resonator_spectroscopy_single.py:50
rs_wait ==
    /\ pc = "rs_wait"
    /\ trace' = Append(trace, Stmt("wait", "", "", <<args.depletion_time>>))
    /\ pc' = "rs_save_I"
    /\ UNCHANGED <<op, args, ar, Ig, counter, amp_matrix, ret, lib, config,
                   cavity_config, qua, streams>>

\* 04_resonator_spectroscopy_single.py:51
rs_save_I ==
    /\ pc = "rs_save_I"
    /\ streams' = [streams EXCEPT !.I = Append(@, qua.I)]
    /\ trace' = Append(trace, Stmt("save", "I_st", "I", qua.I))
    /\ pc' = "rs_save_Q"
    /\ UNCHANGED <<op, args, ar, Ig, counter, amp_matrix, ret, lib, config,
                   cavity_config, qua>>

\* 04_resonator_spectroscopy_single.py:52, and the update of f of the inner
\* for_ (line 38)
rs_save_Q ==
    /\ pc = "rs_save_Q"
    /\ streams' = [streams EXCEPT !.Q = Append(@, qua.Q)]
    /\ trace' = Append(trace, Stmt("save", "Q_st", "Q", qua.Q))
    /\ qua' = [qua EXCEPT !.f = @ + FromArrayStep(args.freqs)]
    /\ pc' = "rs_inner"
    /\ UNCHANGED <<op, args, ar, Ig, counter, amp_matrix, ret, lib, config,
                   cavity_config>>

\* 04_resonator_spectroscopy_single.py:54-56, 83-86  stream processing and
\* fetch_all after wait_for_all_values
rs_fetch ==
    /\ pc = "rs_end"
    /\ ret' = <<"fetched", [I |-> Average(Buffer(streams.I, len(args.freqs))),
               Q |-> Average(Buffer(streams.Q, len(args.freqs)))]>>
    /\ pc' = "done"
    /\ UNCHANGED <<op, args, ar, Ig, counter, trace, amp_matrix, lib, config,
                   cavity_config, qua, streams>>

(***************************************************************************)
(* Specification                                                           *)
(***************************************************************************)
Init ==
    /\ pc = "idle"
    /\ op = "none"
    /\ args = NoArgs
    /\ ar = NoAr
    /\ Ig = 0
    /\ counter = 0
    /\ trace = <<>>
    /\ amp_matrix = NoAmp
    /\ ret = NoRet
    /\ lib = <<>>
    /\ config = two_qubit_rb_config
    /\ cavity_config = cavity_locking_config
    /\ qua = NoQua
    /\ streams = NoStreams

Next ==
    \/ active_reset
    \/ ar_while
    \/ ar_measure
    \/ ar_play
    \/ ar_incr
    \/ reset_qubit
    \/ assign_amplitude_matrix
    \/ play_T_gate_set
    \/ play_SW_gate_set
    \/ play_random_sq_gate
    \/ binary
    \/ fit_exponential_decay
    \/ IQ_imbalance_call
    \/ timeRabiProg
    \/ rabi_outer
    \/ rabi_inner
    \/ rabi_play
    \/ rabi_align
    \/ rabi_measure
    \/ rabi_save_I
    \/ rabi_save_Q
    \/ rabi_save_t
    \/ rabi_fetch
    \/ res_spec
    \/ rs_outer
    \/ rs_inner
    \/ rs_update_frequency
    \/ rs_measure
    \/ rs_wait
    \/ rs_save_I
    \/ rs_save_Q
    \/ rs_fetch

Spec == Init /\ [][Next]_vars

\* the sequencer keeps executing the program it was given
FairSpec ==
    /\ Spec
    /\ WF_vars(ar_while)
    /\ WF_vars(ar_measure)
    /\ WF_vars(ar_play)
    /\ WF_vars(ar_incr)

(***************************************************************************)
(* Properties                                                              *)
(***************************************************************************)
\* active_reset has been entered (its parameters are bound)
Running == "threshold" \in DOMAIN ar
MeasureIdx == {i \in DOMAIN trace : trace[i].op = "measure"}
PlayIdx == {i \in DOMAIN trace : trace[i].op = "play"}
NumMeasures == Cardinality(MeasureIdx)
LastMeasured == trace[CHOOSE i \in MeasureIdx : \A j \in MeasureIdx : j <= i].val[1]

\* C1: active_reset always terminates: the feedback loop never performs more
\* than max_tries measurements of the resonator, and once entered it exits.
C1_ActiveResetTerminates ==
    /\ [](Running => PyInt(NumMeasures) <= ar.max_tries)
    /\ (pc = "ar_while") ~> (pc = "done")

C1_Witness ==
    /\ pc = "done" /\ op = "active_reset"
    /\ ar.max_tries >= PyInt(2)
    /\ PyInt(NumMeasures) = ar.max_tries
    /\ Ig > ar.threshold

\* C2: when the loop of active_reset exits, counter equals the number of
\* measurements performed, 1 <= counter <= max_tries, and either the last
\* measured Ig is <= threshold or counter = max_tries.
C2_ActiveResetExit ==
    (pc = "done" /\ Running) =>
        /\ counter = NumMeasures
        /\ 1 <= counter
        /\ PyInt(counter) <= ar.max_tries
        /\ \/ LastMeasured <= ar.threshold
           \/ PyInt(counter) = ar.max_tries

C2_Witness ==
    /\ pc = "done" /\ Running
    /\ counter >= 2
    /\ PyInt(counter) < ar.max_tries
    /\ LastMeasured <= ar.threshold

\* C3: reset_qubit with method 'cooldown' raises unless cooldown_time is
\* provided and is an integer > 4 clock cycles; when it is valid exactly one
\* wait of cooldown_time on the qubit element is emitted and nothing else.
C3_CooldownValid ==
    /\ args.cooldown_time.k = "val"
    /\ IsInteger(args.cooldown_time.v)
    /\ args.cooldown_time.v > PyInt(4)

C3_CooldownRaisesUnlessValid ==
    (op = "reset_qubit" /\ args.method = "cooldown") =>
        /\ (pc = "raised") <=> ~C3_CooldownValid
        /\ C3_CooldownValid =>
              trace = <<Stmt("wait", args.qubit, "", <<args.cooldown_time.v>>)>>
        /\ ~C3_CooldownValid => trace = <<>>

\* C4: reset_qubit with method 'active' raises if threshold is not given and
\* raises if max_tries is not an integer > 0 (default 1), before any
\* statement is emitted; only when both checks pass does it run active_reset
\* with the same threshold, qubit, resonator, max_tries and Ig, and it
\* returns the result of active_reset.
C4_ThresholdGiven == args.threshold.k = "val"
C4_MaxTries == IF args.max_tries.k = "absent" THEN PyInt(1) ELSE args.max_tries.v
C4_MaxTriesValid ==
    /\ args.max_tries.k # "none"
    /\ IsInteger(C4_MaxTries)
    /\ C4_MaxTries > PyInt(0)

C4_ActiveValidatesFirst ==
    (op = "reset_qubit" /\ args.method = "active") =>
        /\ (pc = "raised") <=> ~(C4_ThresholdGiven /\ C4_MaxTriesValid)
        /\ (pc = "raised") => (trace = <<>> /\ ~Running)
        /\ (pc # "raised") =>
              /\ Running
              /\ ar.threshold = args.threshold.v
              /\ ar.qubit = args.qubit
              /\ ar.resonator = args.resonator
              /\ ar.max_tries = C4_MaxTries
              /\ ar.Ig = args.Ig
              /\ ret = <<ar.IgVar, "counter">>

C4_Witness ==
    /\ op = "reset_qubit" /\ args.method = "active"
    /\ args.max_tries.k = "absent"
    /\ args.Ig = "Ig_user"
    /\ pc = "done"
    /\ counter = 1

\* C5: assign_amplitude_matrix: for a gate index i in 0..len(gate_dict)-1,
\* afterwards amp_matrix[j] = gate_dict[i]['amp_matrix'][j] for all j in 0..3;
\* entries of any other gate index are never assigned; for a gate index
\* outside that range amp_matrix is left unchanged.
C5_AssignAmplitudeMatrix ==
    (op = "assign_amplitude_matrix" /\ pc = "done") =>
        LET i == args.gate
            gate_dict == args.gate_dict
            n == Cardinality(DOMAIN gate_dict) IN
        /\ (i \in 0..(n - 1)) =>
              \A j \in 0..3 : amp_matrix[j + 1] = gate_dict[i].amp_matrix[j + 1]
        /\ \A k \in DOMAIN trace :
              /\ trace[k].op = "assign"
              /\ trace[k].val[2] = i
              /\ trace[k].val[3] = gate_dict[i].amp_matrix[trace[k].val[1] + 1]
        /\ (i \notin 0..(n - 1)) => (amp_matrix = args.amp_matrix /\ trace = <<>>)

C5_Witness ==
    /\ op = "assign_amplitude_matrix" /\ pc = "done"
    /\ args.gate = 1
    /\ Cardinality(DOMAIN args.gate_dict) = 3
    /\ args.gate_dict[0].amp_matrix # args.gate_dict[1].amp_matrix
    /\ args.amp_matrix # args.gate_dict[1].amp_matrix
    /\ amp_matrix = args.gate_dict[1].amp_matrix

\* C6: play_T_gate_set: for gate index 0 or 1 exactly one pulse, the baseline
\* operation scaled by the amplitude matrix, is played on the qubit element
\* and no frame rotation occurs; for gate index 2 no pulse is played and the
\* frame of the qubit element is rotated by 0.125 of a full turn.
C6_TGateSet ==
    (op = "play_T_gate_set" /\ pc = "done") =>
        /\ args.gate \in {0, 1} =>
              trace = <<Stmt("play", args.qubit_el, args.baseline_op, args.amp_matrix)>>
        /\ args.gate = 2 =>
              trace = <<Stmt("frame_rotation_2pi", args.qubit_el, "", <<125>>)>>

C6_Witness ==
    /\ op = "play_T_gate_set" /\ pc = "done"
    /\ args.gate = 2
    /\ Len(trace) = 1 /\ trace[1].op = "frame_rotation_2pi"

\* C7: play_random_sq_gate selects one playback strategy from gate_dict[2]:
\* the T gate set when its gate is named 't', otherwise the SW gate set
\* (a pulse for each gate index 0, 1, 2) when its label is 'sw', otherwise one
\* unconditional pulse; at most one pulse is played on the qubit per call.
C7_RandomSqGate ==
    (op = "play_random_sq_gate" /\ pc = "done") =>
        LET g == args.gate_dict[2]
            pulse == Stmt("play", args.qubit_el, args.baseline_op, args.amp_matrix)
            rotation == Stmt("frame_rotation_2pi", args.qubit_el, "", <<125>>) IN
        /\ g.name = "t" =>
              /\ args.gate \in {0, 1} => trace = <<pulse>>
              /\ args.gate = 2 => trace = <<rotation>>
        /\ (g.name # "t" /\ g.label = "sw") =>
              (args.gate \in {0, 1, 2} => trace = <<pulse>>)
        /\ (g.name # "t" /\ g.label # "sw") => trace = <<pulse>>
        /\ Cardinality(PlayIdx) <= 1
        /\ \A k \in PlayIdx : trace[k] = pulse

C7_Witness ==
    /\ op = "play_random_sq_gate" /\ pc = "done"
    /\ args.gate_dict[2].name = "t" /\ args.gate_dict[2].label = "sw"
    /\ args.gate = 2
    /\ Len(trace) = 1 /\ trace[1].op = "frame_rotation_2pi"

\* C8 (as stated): binary(n, length): for every integer n and every length
\* the result has exactly `length` characters, each '0' or '1', and reading
\* it as a base-2 number gives n.
RECURSIVE BinValue(_)
BinValue(s) ==
    IF s = <<>> THEN 0
    ELSE 2 * BinValue(SubSeq(s, 1, Len(s) - 1)) + (IF s[Len(s)] = "1" THEN 1 ELSE 0)

RECURSIVE Pow2(_)
Pow2(k) == IF k <= 0 THEN 1 ELSE 2 * Pow2(k - 1)

C9_Kept == {i \in DOMAIN args.fidelities : 0 < args.fidelities[i] /\ args.fidelities[i] < 4}
C9_Kth(k) == CHOOSE i \in C9_Kept : Cardinality({j \in C9_Kept : j < i}) = k - 1

C9_FitMaskedPairs ==
    (op = "fit_exponential_decay") =>
        /\ \A c \in DOMAIN lib :
              /\ Len(lib[c].x) = Cardinality(C9_Kept)
              /\ Len(lib[c].y) = Cardinality(C9_Kept)
              /\ \A k \in 1..Cardinality(C9_Kept) :
                    /\ lib[c].x[k] = args.cycle_depths[C9_Kth(k)]
                    /\ lib[c].y[k] = args.fidelities[C9_Kth(k)]
        /\ pc = "done" =>
              /\ Len(lib) = 2 /\ lib[2].fn = "curve_fit"
              /\ 0 <= ret[2].a /\ ret[2].a <= 4
              /\ 0 <= ret[2].layer_fid /\ ret[2].layer_fid <= 4

C9_Witness ==
    /\ op = "fit_exponential_decay" /\ pc = "done"
    /\ Len(args.fidelities) = 3
    /\ args.fidelities[1] = 4 /\ args.fidelities[2] = 3 /\ args.fidelities[3] = 1
    /\ args.cycle_depths = <<1, 2, 1>>
    /\ lib[2].x = <<2, 1>> /\ lib[2].y = <<3, 1>>
    /\ ret[2].a = 4 /\ ret[2].layer_fid = 1

\* C10: IQ_imbalance(g, phi) returns the correction matrix as a list of
\* exactly four numbers; with g = 0 and phi = 0 it is the identity
\* [1, 0, 0, 1]; every mixer entry of the two-qubit RB configuration carries
\* the identity correction.
IdentityCorrection == <<R(1, 1), R(0, 1), R(0, 1), R(1, 1)>>

C10_IQImbalanceIdentity ==
    /\ (op = "IQ_imbalance" /\ pc = "done") =>
          /\ Len(ret) = 4
          /\ \A i \in 1..4 : ret[i] \in [fin : BOOLEAN, n : Int, d : Int]
          /\ (args.g = R(0, 1) /\ args.phi = "0") => ret = IdentityCorrection
    /\ \A m \in DOMAIN config.mixers :
          /\ Len(config.mixers[m]) >= 1
          /\ \A k \in DOMAIN config.mixers[m] :
                config.mixers[m][k].correction = IdentityCorrection

C10_Witness ==
    /\ op = "IQ_imbalance" /\ pc = "done"
    /\ args.g = R(0, 1) /\ args.phi = "0"
    /\ ret = IdentityCorrection
    /\ DOMAIN config.mixers = {"mixer_qe0", "mixer_qe1", "mixer_rr0", "mixer_rr1"}

\* C11 (as stated): the repository has no failure-handling logic of its own:
\* no operation raises an exception it constructs itself, and none catches an
\* exception and turns it into a different outcome.
C11_NoOwnFailureHandling ==
    /\ pc = "raised" => ret[1] # "Exception"
    /\ ~(op = "fit_exponential_decay" /\ pc = "done" /\ ret[2].a_std = "inf")

\* C11 (amended): the failure handling of the repository is confined to
\* three places: reset_qubit and active_reset raise an Exception they
\* construct themselves when an argument check fails, before any statement is
\* emitted (active_reset exactly when max_tries is not an integer >= 1), and
\* fit_exponential_decay turns a ValueError of curve_fit into the result
\* (0, 0, inf, inf); every other error is an exception raised by a library
\* or a builtin.
C11_OwnMessages ==
    { "'cooldown_time' must be an integer > 4 clock cycles",
      "'threshold' must be specified for active reset.",
      "'max_tries' must be an integer > 0.",
      "max_count must be an integer >= 1." }

C11_OwnFailureHandling ==
    /\ (pc = "raised" /\ ret[1] = "Exception") =>
          /\ op \in {"reset_qubit", "active_reset"}
          /\ ret[2] \in C11_OwnMessages
          /\ trace = <<>>
    /\ (pc = "raised" /\ op \notin {"reset_qubit", "active_reset"}) =>
          ret[1] \in {"KeyError", "ValueError", "RuntimeError"}
    /\ (op = "active_reset") =>
          ((pc = "raised") <=>
              ~(IsInteger(args.max_tries) /\ args.max_tries >= PyInt(1)))
    /\ (op = "fit_exponential_decay" /\ pc = "done" /\ ret[2].a_std = "inf") =>
          (ret[2].a = 0 /\ ret[2].layer_fid = 0 /\ ret[2].layer_fid_std = "inf")
    /\ (op \notin {"reset_qubit", "active_reset", "fit_exponential_decay"}
        /\ pc = "done") => lib = <<>>

C11_Witness ==
    /\ op = "active_reset" /\ pc = "raised"
    /\ ret = <<"Exception", "max_count must be an integer >= 1.">>
    /\ args.max_tries = 3

\* C13: in every iteration of the active_reset loop the measurement comes
\* first, then 'x180' is played on the qubit iff the Ig just measured is above
\* threshold, then the counter is incremented by one; once a measurement
\* yields Ig <= threshold no further measurement or pi pulse is issued.
C13_ActiveResetOrder ==
    Running /\ pc # "raised" =>
        /\ trace[1].op = "align"
        /\ \A i \in 2..Len(trace) : trace[i].op \in {"measure", "play"}
        \* a pi pulse directly follows a measurement above threshold
        /\ \A i \in PlayIdx :
              /\ trace[i] = Stmt("play", ar.qubit, "x180", <<>>)
              /\ trace[i - 1].op = "measure"
              /\ trace[i - 1].val[1] > ar.threshold
        \* a measurement above threshold is followed by the pi pulse, a
        \* measurement at or below threshold by nothing
        /\ \A i \in MeasureIdx :
              /\ trace[i].el = ar.resonator
              /\ (trace[i].val[1] > ar.threshold /\ (i < Len(trace) \/ pc # "ar_play"))
                    => (i < Len(trace) /\ trace[i + 1].op = "play")
              /\ (trace[i].val[1] <= ar.threshold) => i = Len(trace)
        \* the counter is incremented after the measurement and the pulse
        /\ pc \in {"ar_while", "ar_measure", "done"} => counter = NumMeasures
        /\ pc \in {"ar_play", "ar_incr"} => counter = NumMeasures - 1
        /\ pc = "ar_play" => (trace[Len(trace)].op = "measure" /\ trace[Len(trace)].val[1] = Ig)

C13_Witness ==
    /\ Running /\ pc = "done"
    /\ NumMeasures = 2
    /\ Cardinality(PlayIdx) = 1
    /\ LastMeasured <= ar.threshold
    /\ PyInt(counter) < ar.max_tries

(***************************************************************************)
(* Properties of the configuration dictionaries                            *)
(***************************************************************************)
\* the pulses to which some element's operations map an operation
BoundPulses(cfg) ==
    UNION { { cfg.elements[e].operations[o] : o \in DOMAIN cfg.elements[e].operations } :
            e \in DOMAIN cfg.elements }

\* C12 (as stated): in each configuration dictionary every entry of 'pulses'
\* is bound to one or more elements.
C12_EveryPulseBound ==
    /\ \A p \in DOMAIN config.pulses : p \in BoundPulses(config)
    /\ \A p \in DOMAIN cavity_config.pulses : p \in BoundPulses(cavity_config)

\* C12 (amended): in each configuration dictionary every entry of 'pulses' is
\* bound to one or more elements, except square_pi_pulse of the two-qubit RB
\* configuration and cw_pulse of the cavity locking configuration, which no
\* element's operations name.
C12_PulsesBoundExceptUnused ==
    /\ \A p \in DOMAIN config.pulses :
          (p \in BoundPulses(config)) <=> (p # "square_pi_pulse")
    /\ \A p \in DOMAIN cavity_config.pulses :
          (p \in BoundPulses(cavity_config)) <=> (p # "cw_pulse")

C12_Witness ==
    /\ "square_pi_pulse" \in DOMAIN config.pulses
    /\ "const_flux_pulse" \in BoundPulses(config)
    /\ "cw_pulse" \in DOMAIN cavity_config.pulses
    /\ "phase_mod_pulse" \in BoundPulses(cavity_config)
    /\ pc = "idle"

\* the controller ports an element plays to and the ports it acquires from
ElementInputPorts(el) ==
    (IF "mixInputs" \in DOMAIN el THEN {el.mixInputs.I, el.mixInputs.Q} ELSE {})
    \cup (IF "singleInput" \in DOMAIN el THEN {el.singleInput.port} ELSE {})
ElementOutputPorts(el) ==
    IF "outputs" \in DOMAIN el THEN {el.outputs[o] : o \in DOMAIN el.outputs} ELSE {}

ReferentiallyClosed(cfg) ==
    /\ \A e \in DOMAIN cfg.elements :
          LET el == cfg.elements[e] IN
          /\ \A o \in DOMAIN el.operations : el.operations[o] \in DOMAIN cfg.pulses
          /\ "mixInputs" \in DOMAIN el =>
                ("mixers" \in DOMAIN cfg /\ el.mixInputs.mixer \in DOMAIN cfg.mixers)
          /\ \A port \in ElementInputPorts(el) :
                /\ port[1] \in DOMAIN cfg.controllers
                /\ port[2] \in DOMAIN cfg.controllers[port[1]].analog_outputs
          /\ \A port \in ElementOutputPorts(el) :
                /\ port[1] \in DOMAIN cfg.controllers
                /\ port[2] \in DOMAIN cfg.controllers[port[1]].analog_inputs
    /\ \A p \in DOMAIN cfg.pulses :
          LET pulse == cfg.pulses[p] IN
          /\ \A w \in DOMAIN pulse.waveforms :
                pulse.waveforms[w] \in DOMAIN cfg.waveforms
          /\ "integration_weights" \in DOMAIN pulse =>
                \A w \in DOMAIN pulse.integration_weights :
                    pulse.integration_weights[w] \in DOMAIN cfg.integration_weights
          /\ "digital_marker" \in DOMAIN pulse =>
                pulse.digital_marker \in DOMAIN cfg.digital_waveforms

\* C16: both configuration dictionaries are referentially closed: every pulse
\* named by an element's operations exists in 'pulses', every waveform named
\* by a pulse in 'waveforms', every integration weight named by a measurement
\* pulse in 'integration_weights', every digital_marker in
\* 'digital_waveforms', every mixer named by an element in 'mixers', and
\* every controller port used by an element's inputs or outputs is declared
\* under that controller's analog_outputs or analog_inputs.
C16_ConfigsReferentiallyClosed ==
    /\ ReferentiallyClosed(config)
    /\ ReferentiallyClosed(cavity_config)

C16_Witness ==
    /\ config.elements["crtqe1cqe0"].mixInputs.mixer = "mixer_qe1"
    /\ config.elements["rr1"].outputs.out2 = <<"con1", 2>>
    /\ config.pulses["long_readout_pulse"].integration_weights["rotated_minus_sin"]
          = "long_rotated_minus_sine_weights"
    /\ cavity_config.elements["detector_AC"].outputs.out1 = <<"con1", 2>>
    /\ cavity_config.pulses["AC_readout_pulse"].digital_marker = "ON"
    /\ pc = "idle"

\* The statement timeRabiProg executes at position k of its run: the sweep
\* value b * dt is followed by N_max repetitions of five statements and then
\* by the save of t.
RabiBlockLen == 5 * N_max + 1
RabiExpected(k) ==
    LET b == (k - 1) \div RabiBlockLen
        o == (k - 1) % RabiBlockLen
        t == b * dt
        r == o \div 5
    IN  IF o = 5 * N_max THEN Stmt("save", "t", "t", <<t>>)
        ELSE CASE o % 5 = 0 -> Stmt("play", "qubit", "gauss_pulse", <<t>>)
               [] o % 5 = 1 -> Stmt("align", "qubit", "RR", <<>>)
               [] o % 5 = 2 -> Stmt("measure", "RR", "meas_pulse", <<t, r>>)
               [] o % 5 = 3 -> Stmt("save", "I_stream", "I", <<t, r>>)
               [] o % 5 = 4 -> Stmt("save", "Q_stream", "Q", <<t, r>>)

ResSpecExpected(k, freqs) ==
    LET j == (k - 1) \div 5
        n == j \div len(freqs)
        f == freqs[j % len(freqs)]
    IN  CASE (k - 1) % 5 = 0 -> Stmt("update_frequency", "rr0", "", <<f>>)
          [] (k - 1) % 5 = 1 -> Stmt("measure", "rr0", "readout", <<n, f>>)
          [] (k - 1) % 5 = 2 -> Stmt("wait", "", "", <<depletion_time>>)
          [] (k - 1) % 5 = 3 -> Stmt("save", "I_st", "I", <<n, f>>)
          [] (k - 1) % 5 = 4 -> Stmt("save", "Q_st", "Q", <<n, f>>)

\* C15: in the resonator spectroscopy program each of the n_avg averaging
\* iterations visits every frequency of freqs once, in array order, and each
\* visit runs update_frequency on 'rr0', measure, wait for the depletion
\* time, save I, save Q; on completion each stream has received exactly
\* n_avg * len(freqs) values and the fetched averages 'I' and 'Q' have
\* len(freqs) entries, entry k averaging the n_avg samples of freqs[k].
C15_ResSpecSweep ==
    op = "res_spec" =>
        /\ \A k \in 1..Len(trace) : trace[k] = ResSpecExpected(k, args.freqs)
        /\ pc \in {"rs_end", "done"} =>
              /\ Len(trace) = 5 * args.n_avg * len(args.freqs)
              /\ Len(streams.I) = args.n_avg * len(args.freqs)
              /\ Len(streams.Q) = args.n_avg * len(args.freqs)
        /\ pc = "done" =>
              /\ Len(ret[2].I) = len(args.freqs)
              /\ Len(ret[2].Q) = len(args.freqs)
              /\ \A k \in 1..len(args.freqs) :
                    /\ ret[2].I[k] = Mean([n \in 1..args.n_avg |->
                                          <<n - 1, args.freqs[k - 1]>>])
                    /\ ret[2].Q[k] = ret[2].I[k]

C15_Witness ==
    /\ op = "res_spec"
    /\ pc = "done"
    /\ args.n_avg = 2
    /\ len(args.freqs) = 3
    /\ Len(streams.I) = 6
    /\ Len(ret[2].I) = 3

====
